---------------------------- MODULE Spec2Model ----------------------------
(***************************************************************************)
(* Model of the two scripts of AutoFactoryScope:                           *)
(*   scripts/pre-annotate-with-model.py  (annotation-assist procedure)     *)
(*   train_robot_model.py                (training procedure)              *)
(*                                                                         *)
(* Three specifications share the variables:                               *)
(*   Spec        - main() of the annotation script over the three splits   *)
(*   SpecTrain   - main() of the training script                           *)
(*   SpecConvert - convert_to_yolo_format applied to every valid box       *)
(*                                                                         *)
(* The detection library is a black box: every call into it either raises  *)
(* or returns, and what it returns is drawn from small sets.               *)
(*                                                                         *)
(* Numbers.  Pixel coordinates are multiples of 1/Grid pixel, held as      *)
(* integers.  A real value is held as a fraction <<num, den>>.  The        *)
(* "%.6f" formatting of line 86 is modelled as what it does: rounding to   *)
(* the nearest multiple of 10^-6, held as an integer count of millionths.  *)
(* The binary rounding of the float arithmetic itself (relative 2^-24) is  *)
(* below that quantum and is not modelled.                                 *)
(***************************************************************************)
EXTENDS Integers, Sequences, FiniteSets, TLC

(***************************************************************************)
(* Bounds of the model                                                     *)
(***************************************************************************)
\* largest image width / height in pixels (SpecConvert)
MaxDim == 4
\* grid points per pixel for box corners (SpecConvert)
Grid == 2
\* largest class id a detection carries (SpecConvert)
MaxClass == 1
\* total number of directory entries over all image directories (Spec)
MaxFiles == 2
\* total number of label files that exist before the run (Spec); a labels
\* directory exists before the run when it holds one of them
MaxOld == 1

(***************************************************************************)
(* Program constants                                                       *)
(***************************************************************************)
\* "{...:.6f}": six decimals, i.e. millionths
Scale == 1000000

IMAGES_DIRS == <<"data/training/images", "data/validation/images", "data/test/images">>
LABELS_DIRS == <<"data/training/labels", "data/validation/labels", "data/test/labels">>

\* zip(IMAGES_DIRS, LABELS_DIRS): the pairs main() iterates, by position
Min(a, b) == IF a <= b THEN a ELSE b
Splits == 1..Min(Len(IMAGES_DIRS), Len(LABELS_DIRS))

ImageSuffixes == {".png", ".jpg", ".jpeg"}

(***************************************************************************)
(* convert_to_yolo_format                                                  *)
(***************************************************************************)
\* a / k for a fraction a
FracDiv(a, k) == <<a[1], a[2] * k>>

\* round n/d (d > 0) to the nearest integer, ties to even
RoundHalfEven(n, d) ==
    LET q == n \div d
        r == n % d
    IN  IF 2 * r < d THEN q
        ELSE IF 2 * r > d THEN q + 1
        ELSE IF q % 2 = 0 THEN q ELSE q + 1

\* f"{v:.6f}" as the number of millionths printed
Format6(v) == RoundHalfEven(v[1] * Scale, v[2])

\* variant: the sum of the corners, not halved
CenterNoHalf(lo, hi) == <<lo + hi, Grid>>
\* center_x = (x1 + x2) / 2.0            (corners in 1/Grid pixel)
Center(lo, hi) == <<lo + hi, 2 * Grid>>

\* variant: x2 + x1
SizeAsSum(lo, hi) == <<hi + lo, Grid>>
\* width = x2 - x1
Size(lo, hi) == <<hi - lo, Grid>>

\* the line convert_to_yolo_format returns: <<class_id, cx, cy, w, h>>
convert_to_yolo_format(box, img_width, img_height) ==
    LET center_x == Center(box.x1, box.x2)
        center_y == Center(box.y1, box.y2)
        width    == Size(box.x1, box.x2)
        height   == Size(box.y1, box.y2)
        center_x_norm == FracDiv(center_x, img_width)
        center_y_norm == FracDiv(center_y, img_height)
        width_norm    == FracDiv(width, img_width)
        height_norm   == FracDiv(height, img_height)
    IN  <<box.cls, Format6(center_x_norm), Format6(center_y_norm),
          Format6(width_norm), Format6(height_norm)>>


(***************************************************************************)
(* State                                                                   *)
(***************************************************************************)
VARIABLES
    \* --- annotation script: the file system it reads and writes
    imagesDirExists,   \* [Splits -> BOOLEAN]  os.path.exists(images_dir)
    listing,           \* [Splits -> set of entries]  content of images_dir
    labelsDirExists,   \* [Splits -> BOOLEAN]  labels_dir exists
    labels,            \* [Splits -> [Stems -> file]]  labels_dir/<stem>.txt
    \* --- annotation script: main() and pre_annotate_directory()
    pc,                \* "load", "split", "loop", "done" ("idle": not run)
    exitCode,          \* what main() returned; -1 while running
    dirIdx,            \* position in zip(IMAGES_DIRS, LABELS_DIRS)
    image_files,       \* the list of line 99
    i,                 \* loop index of line 111
    annotated,
    skipped,
    total_annotated,
    total_skipped,
    \* --- annotation script: history
    fs0,               \* labelsDirExists and labels as they were before the run
    calls,             \* the splits pre_annotate_directory was called for, in order
    ret,               \* [Splits -> what pre_annotate_directory returned]
    outcome,           \* [Splits \X Entries -> how the loop left the entry]
    det,               \* the result the model returned, per image it was run on
    \* --- training script
    tpc,               \* step main() is at
    texit,             \* what main() returned; -1 while running
    tfiles,            \* the paths that exist, among the four the script tests
    tlog,              \* the steps started so far and how each ended, in order
    \* --- convert_to_yolo_format on its own
    cpc,               \* "input", "output"
    cin,               \* [box, img_width, img_height]
    cout               \* the returned line

avars == <<imagesDirExists, listing, labelsDirExists, labels, pc, exitCode,
           dirIdx, image_files, i, annotated, skipped, total_annotated,
           total_skipped, fs0, calls, ret, outcome, det>>
tvars == <<tpc, texit, tfiles, tlog>>
cvars == <<cpc, cin, cout>>
vars  == <<avars, tvars, cvars>>

(***************************************************************************)
(* The annotation script: files, names, model results                      *)
(***************************************************************************)
\* directory entries <<stem, extension>> an image directory may hold
Entries == {<<"a", ".png">>, <<"a", ".JPG">>, <<"b", ".jpeg">>, <<"notes", ".txt">>}
Stems == {e[1] : e \in Entries}

\* str.lower() on the extensions above
Lower(ext) == IF ext = ".JPG" THEN ".jpg" ELSE ext

\* f.lower().endswith(('.png', '.jpg', '.jpeg'))
IsImage(e) == Lower(e[2]) \in ImageSuffixes

\* os.path.splitext(img_file)[0]
LabelStem(e) == e[1]

NoFile == [exists |-> FALSE, lines |-> <<>>]
File(ls) == [exists |-> TRUE, lines |-> ls]
\* a label file somebody wrote before the run
OldFile == File(<< <<0, 500000, 500000, 250000, 250000>> >>)

\* boxes the model may report, corners in 1/Grid pixel of a 4 x 3 image
SampleBoxes ==
    << [cls |-> 0, x1 |-> 1, y1 |-> 0, x2 |-> 4, y2 |-> 3],
       [cls |-> 1, x1 |-> 0, y1 |-> 2, x2 |-> 8, y2 |-> 6] >>

\* what model(img_path, ...) may return: results[0].orig_img.shape and
\* results[0].boxes, with no, one or two detections
Results ==
    { [img_width |-> 4, img_height |-> 3, boxes |-> SubSeq(SampleBoxes, 1, n)] :
        n \in 0..Len(SampleBoxes) }

\* variant: only the first box is converted
AnnotationsFirstOnly(r) ==
    [k \in 1..Min(1, Len(r.boxes)) |->
        convert_to_yolo_format(r.boxes[k], r.img_width, r.img_height)]
\* lines 132-135: one line per box, in order
Annotations(r) ==
    [k \in 1..Len(r.boxes) |->
        convert_to_yolo_format(r.boxes[k], r.img_width, r.img_height)]

\* variant: the test of line 117 never finds the file
LabelExistsNever(s, stem) == FALSE
\* os.path.exists(label_path)
LabelExists(s, stem) == labels[s][stem].exists

\* open(label_path, 'w'); f.write('\n'.join(annotations))
WriteLabel(s, stem, ls) ==
    [labels EXCEPT ![s] = [@ EXCEPT ![stem] = File(ls)]]

\* all orders os.listdir may return the entries of S in
Orders(S) ==
    { f \in [1..Cardinality(S) -> S] :
        \A a, b \in 1..Cardinality(S) : a # b => f[a] # f[b] }

RECURSIVE Sum(_, _)
Sum(f, S) == IF S = {} THEN 0
             ELSE LET x == CHOOSE y \in S : TRUE IN f[x] + Sum(f, S \ {x})

NoReturn == [returned |-> FALSE, annotated |-> 0, skipped |-> 0]
Return(a, k) == [returned |-> TRUE, annotated |-> a, skipped |-> k]

(***************************************************************************)
(* The annotation script: initial states                                   *)
(***************************************************************************)
InitFiles ==
    /\ imagesDirExists \in [Splits -> BOOLEAN]
    /\ listing \in [Splits -> SUBSET Entries]
    /\ \A s \in Splits : ~imagesDirExists[s] => listing[s] = {}
    /\ Sum([s \in Splits |-> Cardinality(listing[s])], Splits) <= MaxFiles
    /\ labels \in [Splits -> [Stems -> {NoFile, OldFile}]]
    /\ \A s \in Splits : \A st \in Stems :
          labels[s][st].exists => \E e \in Entries : IsImage(e) /\ LabelStem(e) = st
    /\ labelsDirExists =
          [s \in Splits |-> \E st \in Stems : labels[s][st].exists]
    /\ Sum([s \in Splits |->
              Cardinality({st \in Stems : labels[s][st].exists})], Splits) <= MaxOld

InitAnnotate ==
    /\ InitFiles
    /\ pc = "load"
    /\ exitCode = -1
    /\ dirIdx = 1
    /\ image_files = <<>>
    /\ i = 0
    /\ annotated = 0
    /\ skipped = 0
    /\ total_annotated = 0
    /\ total_skipped = 0
    /\ fs0 = [dirs |-> labelsDirExists, labels |-> labels]
    /\ calls = <<>>
    /\ ret = [s \in Splits |-> NoReturn]
    /\ outcome = [k \in Splits \X Entries |-> "none"]
    /\ det = <<>>

IdleAnnotate ==
    /\ imagesDirExists = [s \in Splits |-> FALSE]
    /\ listing = [s \in Splits |-> {}]
    /\ labelsDirExists = [s \in Splits |-> FALSE]
    /\ labels = [s \in Splits |-> [st \in Stems |-> NoFile]]
    /\ pc = "idle"
    /\ exitCode = -1
    /\ dirIdx = 1
    /\ image_files = <<>>
    /\ i = 0
    /\ annotated = 0
    /\ skipped = 0
    /\ total_annotated = 0
    /\ total_skipped = 0
    /\ fs0 = [dirs |-> labelsDirExists, labels |-> labels]
    /\ calls = <<>>
    /\ ret = [s \in Splits |-> NoReturn]
    /\ outcome = [k \in Splits \X Entries |-> "none"]
    /\ det = <<>>

(***************************************************************************)
(* The annotation script: main(), lines 177-188                            *)
(***************************************************************************)
\* YOLO(MODEL_PATH) returns
LoadModel ==
    /\ pc = "load"
    /\ pc' = "split"
    /\ UNCHANGED <<imagesDirExists, listing, labelsDirExists, labels, exitCode,
                   dirIdx, image_files, i, annotated, skipped, total_annotated,
                   total_skipped, fs0, calls, ret, outcome, det>>
    /\ UNCHANGED <<tvars, cvars>>

\* YOLO(MODEL_PATH) raises: return 1
LoadModelFails ==
    /\ pc = "load"
    /\ pc' = "done"
    /\ exitCode' = 1
    /\ UNCHANGED <<imagesDirExists, listing, labelsDirExists, labels,
                   dirIdx, image_files, i, annotated, skipped, total_annotated,
                   total_skipped, fs0, calls, ret, outcome, det>>
    /\ UNCHANGED <<tvars, cvars>>

(***************************************************************************)
(* pre_annotate_directory, called from the loop of lines 194-198           *)
(***************************************************************************)
\* what main() does with the returned pair, and the move to the next pair
ReturnToMain(s, a, k) ==
    /\ ret' = [ret EXCEPT ![s] = Return(a, k)]
    /\ total_annotated' = total_annotated + a
    /\ total_skipped' = total_skipped + k
    /\ dirIdx' = dirIdx + 1
    /\ pc' = "split"

\* variant: a missing directory ends the run
AbortOnMissing(s) ==
    /\ ret' = [ret EXCEPT ![s] = Return(0, 0)]
    /\ exitCode' = 1
    /\ pc' = "done"
    /\ UNCHANGED <<total_annotated, total_skipped, dirIdx>>

\* lines 91-93: the image directory does not exist
OnMissingDirectory(s) ==
    /\ ReturnToMain(s, 0, 0)
    /\ UNCHANGED exitCode

SkipMissingDirectory ==
    /\ pc = "split"
    /\ dirIdx \in Splits
    /\ ~imagesDirExists[dirIdx]
    /\ calls' = Append(calls, dirIdx)
    /\ OnMissingDirectory(dirIdx)
    /\ UNCHANGED <<imagesDirExists, listing, labelsDirExists, labels,
                   image_files, i, annotated, skipped, fs0, outcome, det>>
    /\ UNCHANGED <<tvars, cvars>>

\* line 99: the entries that are images
ImageFilesOf(s) == {e \in listing[s] : IsImage(e)}

\* lines 96-103: the directory exists and holds no image
NoImagesFound ==
    /\ pc = "split"
    /\ dirIdx \in Splits
    /\ imagesDirExists[dirIdx]
    /\ ImageFilesOf(dirIdx) = {}
    /\ calls' = Append(calls, dirIdx)
    /\ labelsDirExists' = [labelsDirExists EXCEPT ![dirIdx] = TRUE]
    /\ ReturnToMain(dirIdx, 0, 0)
    /\ UNCHANGED <<imagesDirExists, listing, labels, exitCode,
                   image_files, i, annotated, skipped, fs0, outcome, det>>
    /\ UNCHANGED <<tvars, cvars>>

\* lines 96-109: the directory holds images; start the loop of line 111
StartDirectory ==
    /\ pc = "split"
    /\ dirIdx \in Splits
    /\ imagesDirExists[dirIdx]
    /\ ImageFilesOf(dirIdx) # {}
    /\ calls' = Append(calls, dirIdx)
    /\ labelsDirExists' = [labelsDirExists EXCEPT ![dirIdx] = TRUE]
    /\ \E order \in Orders(ImageFilesOf(dirIdx)) : image_files' = order
    /\ i' = 1
    /\ annotated' = 0
    /\ skipped' = 0
    /\ pc' = "loop"
    /\ UNCHANGED <<imagesDirExists, listing, labels, exitCode, dirIdx,
                   total_annotated, total_skipped, fs0, ret, outcome, det>>
    /\ UNCHANGED <<tvars, cvars>>

InLoop == pc = "loop" /\ i \in 1..Len(image_files)

\* lines 116-121: the label file exists
SkipExisting ==
    /\ InLoop
    /\ LabelExists(dirIdx, LabelStem(image_files[i]))
    /\ skipped' = skipped + 1
    /\ outcome' = [outcome EXCEPT ![<<dirIdx, image_files[i]>>] = "skipped"]
    /\ i' = i + 1
    /\ UNCHANGED <<imagesDirExists, listing, labelsDirExists, labels, pc,
                   exitCode, dirIdx, image_files, annotated, total_annotated,
                   total_skipped, fs0, calls, ret, det>>
    /\ UNCHANGED <<tvars, cvars>>

\* variant: no detection, no file
SaveEmptySkipped(s, stem) == labels
\* lines 142-146: no detection, the file is created empty
SaveEmpty(s, stem) == WriteLabel(s, stem, <<>>)

\* lines 123-150: the model returns and the label file is written
AnnotateImage ==
    /\ InLoop
    /\ ~LabelExists(dirIdx, LabelStem(image_files[i]))
    /\ \E r \in Results :
          LET annotations == Annotations(r)
              stem == LabelStem(image_files[i])
          IN  /\ det' = det @@ (<<dirIdx, image_files[i]>> :> r)
              /\ IF Len(annotations) > 0
                 THEN labels' = WriteLabel(dirIdx, stem, annotations)
                 ELSE labels' = SaveEmpty(dirIdx, stem)
    /\ annotated' = annotated + 1
    /\ outcome' = [outcome EXCEPT ![<<dirIdx, image_files[i]>>] = "annotated"]
    /\ i' = i + 1
    /\ UNCHANGED <<imagesDirExists, listing, labelsDirExists, pc,
                   exitCode, dirIdx, image_files, skipped, total_annotated,
                   total_skipped, fs0, calls, ret>>
    /\ UNCHANGED <<tvars, cvars>>

\* variant: the except clause leaves the loop
AbortOnError ==
    /\ i' = Len(image_files) + 1
    /\ UNCHANGED <<annotated, skipped>>
\* variant: the except clause counts the image as annotated
CountErrorAsAnnotated ==
    /\ i' = i + 1
    /\ annotated' = annotated + 1
    /\ UNCHANGED skipped
\* what the except clause of lines 152-154 does with the loop: continue
OnImageError ==
    /\ i' = i + 1
    /\ UNCHANGED <<annotated, skipped>>

\* lines 123-129, 152-154: the model call or the conversion raises; the
\* label file has not been opened yet
ImageError ==
    /\ InLoop
    /\ ~LabelExists(dirIdx, LabelStem(image_files[i]))
    /\ outcome' = [outcome EXCEPT ![<<dirIdx, image_files[i]>>] = "error"]
    /\ OnImageError
    /\ UNCHANGED <<imagesDirExists, listing, labelsDirExists, labels, pc,
                   exitCode, dirIdx, image_files, total_annotated,
                   total_skipped, fs0, calls, ret, det>>
    /\ UNCHANGED <<tvars, cvars>>

\* lines 156-160, then 197-198
ReturnDirectory ==
    /\ pc = "loop"
    /\ i > Len(image_files)
    /\ ReturnToMain(dirIdx, annotated, skipped)
    /\ UNCHANGED <<imagesDirExists, listing, labelsDirExists, labels,
                   exitCode, image_files, i, annotated, skipped, fs0, calls,
                   outcome, det>>
    /\ UNCHANGED <<tvars, cvars>>

\* lines 200-218
MainReturn ==
    /\ pc = "split"
    /\ dirIdx \notin Splits
    /\ exitCode' = 0
    /\ pc' = "done"
    /\ UNCHANGED <<imagesDirExists, listing, labelsDirExists, labels,
                   dirIdx, image_files, i, annotated, skipped, total_annotated,
                   total_skipped, fs0, calls, ret, outcome, det>>
    /\ UNCHANGED <<tvars, cvars>>

Next ==
    \/ LoadModel
    \/ LoadModelFails
    \/ SkipMissingDirectory
    \/ NoImagesFound
    \/ StartDirectory
    \/ SkipExisting
    \/ AnnotateImage
    \/ ImageError
    \/ ReturnDirectory
    \/ MainReturn

(***************************************************************************)
(* The training script                                                     *)
(***************************************************************************)
DATA_YAML == "dataset.yaml"
best_model_path == "runs/detect/robot_detection/weights/best.pt"
last_model_path == "runs/detect/robot_detection/weights/last.pt"
onnx_path == "runs/detect/robot_detection/weights/best.onnx"
TrainPaths == {DATA_YAML, best_model_path, last_model_path, onnx_path}

Log(step, result) == [step |-> step, result |-> result]

\* variant: a failed step is followed by the next one
ContinueAfterFailure(next) ==
    /\ tpc' = next
    /\ UNCHANGED texit
\* return 1 of lines 88, 107, 175, 223, 230
Abort(next) ==
    /\ tpc' = "done"
    /\ texit' = 1

InitTrain ==
    /\ tpc = "check"
    /\ texit = -1
    /\ tfiles \in SUBSET TrainPaths
    /\ tlog = <<>>

IdleTrain ==
    /\ tpc = "idle"
    /\ texit = -1
    /\ tfiles = {}
    /\ tlog = <<>>

\* lines 72-88: dataset.yaml is missing
CheckConfigMissing ==
    /\ tpc = "check"
    /\ DATA_YAML \notin tfiles
    /\ tlog' = Append(tlog, Log("check", "missing"))
    /\ Abort("load")
    /\ UNCHANGED tfiles
    /\ UNCHANGED <<avars, cvars>>

\* lines 72-90
CheckConfigFound ==
    /\ tpc = "check"
    /\ DATA_YAML \in tfiles
    /\ tlog' = Append(tlog, Log("check", "ok"))
    /\ tpc' = "load"
    /\ UNCHANGED <<texit, tfiles>>
    /\ UNCHANGED <<avars, cvars>>

\* lines 92-103: YOLO(model_name) returns
LoadPretrained ==
    /\ tpc = "load"
    /\ tlog' = Append(tlog, Log("load", "ok"))
    /\ tpc' = "train"
    /\ UNCHANGED <<texit, tfiles>>
    /\ UNCHANGED <<avars, cvars>>

\* lines 104-107: YOLO(model_name) raises
LoadPretrainedFails ==
    /\ tpc = "load"
    /\ tlog' = Append(tlog, Log("load", "raised"))
    /\ Abort("train")
    /\ UNCHANGED tfiles
    /\ UNCHANGED <<avars, cvars>>

\* lines 109-165: model.train returns; it may have written the weights
Train ==
    /\ tpc = "train"
    /\ \E written \in SUBSET {best_model_path, last_model_path} :
          tfiles' = tfiles \cup written
    /\ tlog' = Append(tlog, Log("train", "ok"))
    /\ tpc' = "inspect"
    /\ UNCHANGED texit
    /\ UNCHANGED <<avars, cvars>>

\* lines 167-175: model.train raises; weights may have been written before
TrainFails ==
    /\ tpc = "train"
    /\ \E written \in SUBSET {best_model_path, last_model_path} :
          tfiles' = tfiles \cup written
    /\ tlog' = Append(tlog, Log("train", "raised"))
    /\ Abort("inspect")
    /\ UNCHANGED <<avars, cvars>>

\* lines 177-189: the two existence tests only print
InspectResults ==
    /\ tpc = "inspect"
    /\ tlog' = Append(tlog, Log("inspect", "ok"))
    /\ tpc' = "export"
    /\ UNCHANGED <<texit, tfiles>>
    /\ UNCHANGED <<avars, cvars>>

\* variant: the file is not tested for
ExportedAlways(files) == TRUE
\* lines 211-223: the exported file is tested for after export returned
Exported(files) == onnx_path \in files

\* lines 196-198: YOLO(best_model_path) returns
LoadBest ==
    /\ tpc = "export"
    /\ tlog' = Append(tlog, Log("loadbest", "ok"))
    /\ tpc' = "onnx"
    /\ UNCHANGED <<texit, tfiles>>
    /\ UNCHANGED <<avars, cvars>>

\* lines 196-198, 225-230: YOLO(best_model_path) raises
LoadBestFails ==
    /\ tpc = "export"
    /\ tlog' = Append(tlog, Log("loadbest", "raised"))
    /\ Abort("onnx")
    /\ UNCHANGED tfiles
    /\ UNCHANGED <<avars, cvars>>

\* lines 202-219: export returns, and the file is there
ExportModel ==
    /\ tpc = "onnx"
    /\ \E written \in SUBSET {onnx_path} :
          /\ tfiles' = tfiles \cup written
          /\ Exported(tfiles')
    /\ tlog' = Append(tlog, Log("export", "ok"))
    /\ tpc' = "final"
    /\ UNCHANGED texit
    /\ UNCHANGED <<avars, cvars>>

\* lines 202-212, 220-223: export returns, and the file is not there
ExportNoFile ==
    /\ tpc = "onnx"
    /\ ~Exported(tfiles)
    /\ tlog' = Append(tlog, Log("export", "nofile"))
    /\ Abort("final")
    /\ UNCHANGED tfiles
    /\ UNCHANGED <<avars, cvars>>

\* lines 202-209, 225-230: export raises; it may have written the file before
ExportFails ==
    /\ tpc = "onnx"
    /\ \E written \in SUBSET {onnx_path} : tfiles' = tfiles \cup written
    /\ tlog' = Append(tlog, Log("export", "raised"))
    /\ Abort("final")
    /\ UNCHANGED <<avars, cvars>>

\* lines 232-254
TrainReturn ==
    /\ tpc = "final"
    /\ texit' = 0
    /\ tpc' = "done"
    /\ UNCHANGED <<tfiles, tlog>>
    /\ UNCHANGED <<avars, cvars>>

TrainNext ==
    \/ CheckConfigMissing
    \/ CheckConfigFound
    \/ LoadPretrained
    \/ LoadPretrainedFails
    \/ Train
    \/ TrainFails
    \/ InspectResults
    \/ LoadBest
    \/ LoadBestFails
    \/ ExportModel
    \/ ExportNoFile
    \/ ExportFails
    \/ TrainReturn

(***************************************************************************)
(* convert_to_yolo_format applied to every valid box                       *)
(***************************************************************************)
\* boxes within the bounds of an image of the given size
ValidBoxes(img_width, img_height) ==
    { [cls |-> c, x1 |-> a, y1 |-> b, x2 |-> a2, y2 |-> b2] :
        c \in 0..MaxClass,
        a \in 0..img_width * Grid, a2 \in 0..img_width * Grid,
        b \in 0..img_height * Grid, b2 \in 0..img_height * Grid }

InitConvert ==
    /\ cpc = "input"
    /\ \E w \in 1..MaxDim, h \in 1..MaxDim :
         \E box \in ValidBoxes(w, h) :
            /\ box.x1 <= box.x2
            /\ box.y1 <= box.y2
            /\ cin = [box |-> box, img_width |-> w, img_height |-> h]
    /\ cout = <<0, 0, 0, 0, 0>>

IdleConvert ==
    /\ cpc = "idle"
    /\ cin = [box |-> [cls |-> 0, x1 |-> 0, y1 |-> 0, x2 |-> 0, y2 |-> 0],
              img_width |-> 1, img_height |-> 1]
    /\ cout = <<0, 0, 0, 0, 0>>

Convert ==
    /\ cpc = "input"
    /\ cout' = convert_to_yolo_format(cin.box, cin.img_width, cin.img_height)
    /\ cpc' = "output"
    /\ UNCHANGED cin
    /\ UNCHANGED <<avars, tvars>>

(***************************************************************************)
(* Specifications                                                          *)
(***************************************************************************)
Init == InitAnnotate /\ IdleTrain /\ IdleConvert
Spec == Init /\ [][Next]_vars

TrainInit == IdleAnnotate /\ InitTrain /\ IdleConvert
SpecTrain == TrainInit /\ [][TrainNext]_vars

ConvertInit == IdleAnnotate /\ IdleTrain /\ InitConvert
ConvertNext == Convert
SpecConvert == ConvertInit /\ [][ConvertNext]_vars

(***************************************************************************)
(* Vocabulary of the properties                                            *)
(***************************************************************************)
Key(s, e) == <<s, e>>
Stem(e) == e[1]
\* the image files of split s, as the claims count them
Images(s) == {e \in listing[s] : e[2] \in {".png", ".jpg", ".jpeg", ".PNG", ".JPG", ".JPEG"}}
ExistedBefore(s, e) == fs0.labels[s][Stem(e)].exists
Invoked(s, e) == Key(s, e) \in DOMAIN det
NumLeft(s, o) == Cardinality({e \in Entries : outcome[Key(s, e)] = o})
Created(s) == {st \in Stems : ~fs0.labels[s][st].exists /\ labels[s][st].exists}
AllSplitsInOrder == [k \in 1..Len(IMAGES_DIRS) |-> k]
Finished == pc = "done" /\ calls # <<>>

(***************************************************************************)
(* C1: a label file that exists is never overwritten: once it exists its   *)
(* content stays what it is at every step, so a file that exists before    *)
(* the run has the same content after it; an image whose label file exists *)
(* when it is visited is skipped without the model being run on it, and it *)
(* is counted in 'skipped' and not in 'annotated'.                         *)
(***************************************************************************)
ExistingLabelsKept ==
    \A s \in Splits : \A st \in Stems :
        labels[s][st].exists => labels'[s][st] = labels[s][st]

SkippedNotInvoked ==
    /\ \A s \in Splits : \A st \in Stems :
          fs0.labels[s][st].exists => labels[s][st] = fs0.labels[s][st]
    /\ \A s \in Splits : \A e \in Images(s) :
          /\ (ExistedBefore(s, e) /\ outcome[Key(s, e)] # "none")
                => outcome[Key(s, e)] = "skipped"
          /\ outcome[Key(s, e)] = "skipped" =>
                (~Invoked(s, e) /\ labels[s][Stem(e)].exists)
          /\ ExistedBefore(s, e) => ~Invoked(s, e)
    /\ \A s \in Splits : ret[s].returned =>
          /\ ret[s].skipped = NumLeft(s, "skipped")
          /\ ret[s].annotated = NumLeft(s, "annotated")
          /\ ret[s].skipped >= Cardinality({e \in Images(s) : ExistedBefore(s, e)})

C2_MissingDirectorySkipped ==
    /\ \A s \in Splits : ~imagesDirExists[s] =>
          /\ labelsDirExists[s] = fs0.dirs[s]
          /\ labels[s] = fs0.labels[s]
          /\ ret[s].returned => ret[s] = Return(0, 0)
    /\ calls = SubSeq(AllSplitsInOrder, 1, Len(calls))
    /\ Finished => calls = AllSplitsInOrder /\ exitCode = 0
    /\ (pc = "done" /\ exitCode = 0) => \A s \in Splits : ret[s].returned

C2_Witness ==
    /\ pc = "done"
    /\ exitCode = 0
    /\ ~imagesDirExists[1]
    /\ ~labelsDirExists[1]
    /\ ret[1] = Return(0, 0)
    /\ ret[2].returned /\ ret[2].annotated = 1
    /\ ~imagesDirExists[3]

(***************************************************************************)
(* C3: when the model returns no detection for an image that has no label  *)
(* file yet, the label file is created empty and the image is counted in   *)
(* 'annotated'.                                                            *)
(***************************************************************************)
C3_EmptyFileCreated ==
    \A s \in Splits : \A e \in Images(s) :
        (Invoked(s, e) /\ det[Key(s, e)].boxes = <<>>) =>
            /\ labels[s][Stem(e)] = File(<<>>)
            /\ outcome[Key(s, e)] = "annotated"
            /\ (pc = "loop" /\ dirIdx = s) => annotated = NumLeft(s, "annotated")
            /\ ret[s].returned => ret[s].annotated = NumLeft(s, "annotated")

C3_Witness ==
    /\ pc = "done"
    /\ \E s \in Splits : \E e \in Images(s) :
          /\ Invoked(s, e)
          /\ det[Key(s, e)].boxes = <<>>
          /\ ~ExistedBefore(s, e)
          /\ labels[s][Stem(e)].exists
          /\ ret[s].annotated = 1

(***************************************************************************)
(* C4: an image whose processing raises is counted in neither 'annotated'  *)
(* nor 'skipped'; the loop goes on, so that when main is done every image  *)
(* of every existing directory has been visited, every pair has been       *)
(* processed, and the exit code is 0.                                      *)
(***************************************************************************)
C4_ErrorsDoNotStopTheBatch ==
    /\ pc = "loop" =>
          /\ annotated = NumLeft(dirIdx, "annotated")
          /\ skipped = NumLeft(dirIdx, "skipped")
          /\ \A k \in 1..Len(image_files) :
                (k < i) <=> outcome[Key(dirIdx, image_files[k])] # "none"
    /\ \A s \in Splits : ret[s].returned =>
          /\ ret[s].annotated = NumLeft(s, "annotated")
          /\ ret[s].skipped = NumLeft(s, "skipped")
          /\ \A e \in Images(s) : outcome[Key(s, e)] # "none"
    /\ Finished =>
          /\ exitCode = 0
          /\ \A s \in Splits : ret[s].returned

C4_Witness ==
    /\ pc = "done"
    /\ exitCode = 0
    /\ Len(calls) = Len(IMAGES_DIRS)
    /\ Len(image_files) = 2
    /\ outcome[Key(1, image_files[1])] = "error"
    /\ outcome[Key(1, image_files[2])] = "annotated"
    /\ ret[1] = Return(1, 0)

(***************************************************************************)
(* C5: for a box within the bounds of the image, the four normalized       *)
(* values of the returned line lie in [0, 1].                              *)
(***************************************************************************)
C5_NormalizedInUnitInterval ==
    cpc = "output" => \A k \in 2..5 : 0 <= cout[k] /\ cout[k] <= Scale

\* a box that spans the whole width and touches the bottom edge
C5_Witness ==
    /\ cpc = "output"
    /\ cin.img_width = 3
    /\ cout[4] = Scale
    /\ cout[3] = Scale
    /\ cout[5] = 0

(***************************************************************************)
(* C6: the inverse transform applied to the returned line (x1 = (cx -      *)
(* w/2) * img_width, x2 = (cx + w/2) * img_width, y alike) recovers every  *)
(* corner to within 10^-6 of the image dimension, the quantum of the six   *)
(* printed decimals.                                                       *)
(***************************************************************************)
Abs(x) == IF x < 0 THEN -x ELSE x
\* |recovered - corner| <= dim * 10^-6, with both sides times 2 * Grid * Scale
Recovers(center, size, dim, corner, sign) ==
    Abs((2 * center + sign * size) * dim * Grid - 2 * Scale * corner)
        <= 2 * Grid * dim

C6_InverseRecoversCorners ==
    cpc = "output" =>
        /\ Recovers(cout[2], cout[4], cin.img_width, cin.box.x1, -1)
        /\ Recovers(cout[2], cout[4], cin.img_width, cin.box.x2, 1)
        /\ Recovers(cout[3], cout[5], cin.img_height, cin.box.y1, -1)
        /\ Recovers(cout[3], cout[5], cin.img_height, cin.box.y2, 1)

\* a line whose six decimals are rounded, so that the recovery is not exact
C6_Witness ==
    /\ cpc = "output"
    /\ cin.box.x1 < cin.box.x2
    /\ (2 * cout[2] - cout[4]) * cin.img_width * Grid # 2 * Scale * cin.box.x1

(***************************************************************************)
(* C7 as stated: every image of a processed directory whose processing     *)
(* raised no error and whose label file did not exist before the run has,  *)
(* after the run, a label file with one line per detection of that image,  *)
(* each computed from that image's own boxes and dimensions.               *)
(***************************************************************************)
LinesOf(s, e) ==
    /\ Invoked(s, e)
    /\ labels[s][Stem(e)].exists
    /\ Len(labels[s][Stem(e)].lines) = Len(det[Key(s, e)].boxes)
    /\ \A k \in 1..Len(det[Key(s, e)].boxes) :
          labels[s][Stem(e)].lines[k] =
              convert_to_yolo_format(det[Key(s, e)].boxes[k],
                                     det[Key(s, e)].img_width,
                                     det[Key(s, e)].img_height)

Ran(step, result, before) ==
    \E j \in 1..(before - 1) : tlog[j] = Log(step, result)

C8_FailureAborts ==
    /\ \A k \in 1..Len(tlog) :
          /\ tlog[k].result # "ok" => (k = Len(tlog) /\ tpc = "done" /\ texit = 1)
          /\ tlog[k].step = "load" => Ran("check", "ok", k)
          /\ tlog[k].step = "train" => Ran("check", "ok", k) /\ Ran("load", "ok", k)
          /\ tlog[k].step \in {"loadbest", "export"} => Ran("train", "ok", k)
          /\ tlog[k].step = "export" => Ran("loadbest", "ok", k)
          /\ \A j \in 1..Len(tlog) : tlog[j].step = tlog[k].step => j = k
    /\ tpc = "done" => texit \in {0, 1}
    /\ texit = 1 => (tpc = "done" /\ tlog # <<>> /\ tlog[Len(tlog)].result # "ok")

C8_Witness ==
    /\ tpc = "done"
    /\ texit = 1
    /\ Len(tlog) = 3
    /\ tlog[3] = Log("train", "raised")

(***************************************************************************)
(* C9: main returns 0 only if the config was found, the model load, the    *)
(* training and the export all returned, and best.onnx exists; the         *)
(* inspection of best.pt and last.pt never ends the run.                   *)
(***************************************************************************)
C9_ZeroOnlyWithExport ==
    /\ texit = 0 =>
          /\ tpc = "done"
          /\ onnx_path \in tfiles
          /\ \A st \in {"check", "load", "train", "inspect", "loadbest", "export"} :
                Ran(st, "ok", Len(tlog) + 1)
    /\ (tlog # <<>> /\ tlog[Len(tlog)].step = "inspect") =>
          (tpc = "export" /\ texit = -1)
    /\ (tlog # <<>> /\ tlog[Len(tlog)] = Log("train", "ok")) => tpc = "inspect"

C9_Witness ==
    /\ tpc = "done"
    /\ texit = 0
    /\ last_model_path \notin tfiles
    /\ onnx_path \in tfiles

(***************************************************************************)
(* C10 as stated: for an existing directory annotated + skipped is at most *)
(* the number of image files, with equality exactly when no image raised;  *)
(* annotated is the number of label files the call created; skipped is the *)
(* number of images whose label file existed before the call; the totals   *)
(* are the sums over the splits.                                           *)
(***************************************************************************)
CountsWithoutSkipped(s) ==
    /\ ret[s].annotated + ret[s].skipped <= Cardinality(Images(s))
    /\ (ret[s].annotated + ret[s].skipped = Cardinality(Images(s)))
          <=> (NumLeft(s, "error") = 0)
    /\ ret[s].annotated = Cardinality(Created(s))
TotalsAreSums ==
    (pc = "done" /\ exitCode = 0) =>
        /\ total_annotated = Sum([s \in Splits |-> ret[s].annotated], Splits)
        /\ total_skipped = Sum([s \in Splits |-> ret[s].skipped], Splits)

PassedOver(s) ==
    {e \in Images(s) :
        /\ ~ExistedBefore(s, e)
        /\ ~Invoked(s, e)
        /\ outcome[Key(s, e)] # "error"
        /\ \E e2 \in Images(s) \ {e} :
              Stem(e2) = Stem(e) /\ Invoked(s, e2) /\ Stem(e2) \in Created(s)}

============================================================================
